---------------------------- MODULE Spec2Model ----------------------------
(***************************************************************************)
(* A model of the weather dashboard.                                       *)
(*                                                                         *)
(*   - the proxy endpoint  src/pages/api/weather.ts  (handler), of which   *)
(*     src/unnamed/part_000 is a commented copy with the same code;        *)
(*   - the dashboard view  src/pages/index.tsx  (HomePage), in its two     *)
(*     variants: with the city form (lines 11-147) and without it          *)
(*     (lines 163-328).                                                    *)
(*                                                                         *)
(* Spec is the proxy endpoint serving a request and its repetitions;       *)
(* ViewSpec is one page load of the view; ChartSpec is the ring chart.     *)
(***************************************************************************)
EXTENDS Integers, Sequences, FiniteSets, TLC

VARIABLES
    \* ---- proxy endpoint (handler) ----
    query,          \* req.query: [city, lat, lon], each a JavaScript value
    apiKey,         \* process.env.OPENWEATHER_API_KEY as read by this invocation
    hpc,            \* where the handler is: idle, awaitFetch, awaitJson, done
    outbound,       \* the URLs this invocation has passed to fetch(), in order
    upstream,       \* what the provider did for this invocation
    sent,           \* the responses this invocation has sent, in order
    prev,           \* the previous invocation of the same request, when repeated
    \* ---- dashboard view (HomePage) ----
    hasForm,        \* which variant of the page: with or without the city form
    city,           \* the text of the city input
    weather,        \* useState<WeatherData | null>
    loading,        \* useState(false)
    error,          \* useState<string | null>
    locationLoading,\* useState(true)
    locationError,  \* useState<string | null>
    geo,            \* where the location resolution is
    geoError,       \* err.code as the failure callback received it, or null
    cycles,         \* the fetch cycles started so far, in order of start
    \* ---- the ring chart of the page without the form ----
    temp,                   \* weather?.main.temp
    temperaturePercentage,  \* calculateTemperaturePercentage(temp)
    chartData               \* the data of the chart's one dataset, or null

proxyVars == <<query, apiKey, hpc, outbound, upstream, sent, prev>>
viewVars  == <<hasForm, city, weather, loading, error, locationLoading,
               locationError, geo, geoError, cycles>>
chartVars == <<temp, temperaturePercentage, chartData>>
vars      == <<proxyVars, viewVars, chartVars>>

\* The fetch cycles one page load may start, in the model.
MaxCycles == 3

\* Temperatures are counted in steps of 1/TempSteps of a degree, from
\* TempBelow degrees under minTemp to TempAbove degrees over maxTemp.
TempSteps == 4
TempBelow == 30
TempAbove == 60

---------------------------------------------------------------------------
(* JavaScript values, as far as the code tells them apart: undefined, a    *)
(* string, a number, an array of strings (a repeated query parameter).     *)

Undefined == [t |-> "undefined", s |-> "", n |-> 0]
Str(s)    == [t |-> "string", s |-> s, n |-> 0]
Num(n)    == [t |-> "number", s |-> "", n |-> n]
StrArray  == [t |-> "array", s |-> "", n |-> 0]

\* JavaScript truthiness: what `x && ...`, `!x` and `x || y` test.
Truthy(v) ==
    CASE v.t = "undefined" -> FALSE
      [] v.t = "string"    -> v.s # ""
      [] v.t = "number"    -> v.n # 0
      [] v.t = "array"     -> TRUE

\* typeof v === 'string'
IsString(v) == v.t = "string"

---------------------------------------------------------------------------
(* The proxy endpoint.                                                     *)

\* The values a query parameter can take in req.query.
CityParams == {Undefined, Str(""), Str("Seoul"), StrArray}
LatParams  == {Undefined, Str(""), Str("37.5"), StrArray}
LonParams  == {Undefined, Str(""), Str("127.0"), StrArray}
Queries    == [city : CityParams, lat : LatParams, lon : LonParams]

\* The values of the environment's OPENWEATHER_API_KEY.
ApiKeys == {Undefined, Str(""), Str("key-A"), Str("key-B")}

\* The provider's JSON payloads: cod is an HTTP status, 0 or missing; message
\* is the provider's own text, empty or missing; name stands for the weather
\* fields (name, weather, main, wind), which the handler never reads.
Cods     == {Undefined, Num(0), Num(200), Num(401), Num(404), Num(500)}
Messages == {Undefined, Str(""), Str("city not found")}
Names    == {"Seoul", "Busan"}
Payloads == [cod : Cods, message : Messages, name : Names]

NoPayload == [cod |-> Undefined, message |-> Undefined, name |-> ""]

\* What the provider did: nothing yet, fetch() rejected, the body did not
\* parse as JSON, or the body parsed to a payload.
NoUpstream          == [kind |-> "none", data |-> NoPayload]
NetworkFailure      == [kind |-> "network", data |-> NoPayload]
UnparseableBody     == [kind |-> "unparseable", data |-> NoPayload]
Parsed(data)        == [kind |-> "payload", data |-> data]
\* The body parsed to null, of which data.cod cannot be read (a TypeError).
NullBody            == [kind |-> "null", data |-> NoPayload]

\* res.status(code).json({ message })
MessageResponse(code, text) ==
    [status |-> code, kind |-> "message", message |-> text, data |-> NoPayload]

\* res.status(code).json(data)
DataResponse(code, data) ==
    [status |-> code, kind |-> "data", message |-> "", data |-> data]

\* The URL templates: the endpoint and the query string's pairs, in order.
Endpoint == "https://api.openweathermap.org/data/2.5/weather"

CoordsUrl(q, key) ==
    [endpoint |-> Endpoint,
     params   |-> << <<"lat", q.lat.s>>, <<"lon", q.lon.s>>, <<"appid", key.s>>,
                     <<"units", "metric">>, <<"lang", "kr">> >>]

CityUrl(q, key) ==
    [endpoint |-> Endpoint,
     params   |-> << <<"q", q.city.s>>, <<"appid", key.s>>,
                     <<"units", "metric">>, <<"lang", "kr">> >>]

\* lat && lon && typeof lat === 'string' && typeof lon === 'string'
HasCoords(q) ==
    Truthy(q.lat) /\ Truthy(q.lon) /\ IsString(q.lat) /\ IsString(q.lon)

\* A slip: the typeof test left out.
HasCityAnyType(q) == Truthy(q.city)

\* city && typeof city === 'string'
HasCity(q) == Truthy(q.city) /\ IsString(q.city)

\* A slip: the test for a cod left out.
IsProviderErrorWhenAbsent(data) == data.cod # Num(200)

\* data.cod && data.cod !== 200
IsProviderError(data) == Truthy(data.cod) /\ data.cod # Num(200)

\* data.message || `OpenWeatherMap API Error: ${data.cod}`
ProviderErrorMessage(data) ==
    IF Truthy(data.message)
    THEN data.message.s
    ELSE "OpenWeatherMap API Error: " \o ToString(data.cod.n)

\* The run of the handler just finished, kept when the request is repeated.
NoPrev == [ran |-> FALSE, query |-> [city |-> Undefined, lat |-> Undefined,
                                     lon |-> Undefined],
           apiKey |-> Undefined, outbound |-> <<>>, upstream |-> NoUpstream,
           sent |-> <<>>]

ThisRun == [ran |-> TRUE, query |-> query, apiKey |-> apiKey,
            outbound |-> outbound, upstream |-> upstream, sent |-> sent]

\* A slip: the city branch tested before the coordinates branch.
handlerCityFirst(q, key) ==
    /\ query' = q
    /\ apiKey' = key
    /\ upstream' = NoUpstream
    /\ IF ~Truthy(key)
       THEN /\ sent' = <<MessageResponse(500, "API Key not configured")>>
            /\ outbound' = <<>>
            /\ hpc' = "done"
       ELSE IF HasCity(q)
       THEN /\ outbound' = <<CityUrl(q, key)>>
            /\ sent' = <<>>
            /\ hpc' = "awaitFetch"
       ELSE IF HasCoords(q)
       THEN /\ outbound' = <<CoordsUrl(q, key)>>
            /\ sent' = <<>>
            /\ hpc' = "awaitFetch"
       ELSE /\ sent' = <<MessageResponse(400,
                    "City or latitude/longitude query parameters are required")>>
            /\ outbound' = <<>>
            /\ hpc' = "done"

\* A slip: the parameters validated before the credential is looked at.
handlerParamsFirst(q, key) ==
    /\ query' = q
    /\ apiKey' = key
    /\ upstream' = NoUpstream
    /\ IF ~(HasCoords(q) \/ HasCity(q))
       THEN /\ sent' = <<MessageResponse(400,
                    "City or latitude/longitude query parameters are required")>>
            /\ outbound' = <<>>
            /\ hpc' = "done"
       ELSE IF ~Truthy(key)
       THEN /\ sent' = <<MessageResponse(500, "API Key not configured")>>
            /\ outbound' = <<>>
            /\ hpc' = "done"
       ELSE /\ outbound' = <<IF HasCoords(q) THEN CoordsUrl(q, key)
                                             ELSE CityUrl(q, key)>>
            /\ sent' = <<>>
            /\ hpc' = "awaitFetch"

\* The handler from its entry to its first await or return.
handler(q, key) ==
    /\ query' = q
    /\ apiKey' = key
    /\ upstream' = NoUpstream
    /\ IF ~Truthy(key)
       THEN /\ sent' = <<MessageResponse(500, "API Key not configured")>>
            /\ outbound' = <<>>
            /\ hpc' = "done"
       ELSE IF HasCoords(q)
       THEN /\ outbound' = <<CoordsUrl(q, key)>>
            /\ sent' = <<>>
            /\ hpc' = "awaitFetch"
       ELSE IF HasCity(q)
       THEN /\ outbound' = <<CityUrl(q, key)>>
            /\ sent' = <<>>
            /\ hpc' = "awaitFetch"
       ELSE /\ sent' = <<MessageResponse(400,
                    "City or latitude/longitude query parameters are required")>>
            /\ outbound' = <<>>
            /\ hpc' = "done"

\* A request arrives.
NewRequest ==
    /\ hpc = "idle"
    /\ prev' = NoPrev
    /\ \E q \in Queries, key \in ApiKeys : handler(q, key)
    /\ UNCHANGED <<viewVars, chartVars>>

\* The same request arrives again, the configured key being the same or not.
RepeatRequest ==
    /\ hpc = "done"
    /\ prev' = ThisRun
    /\ \E key \in ApiKeys : handler(query, key)
    /\ UNCHANGED <<viewVars, chartVars>>

\* await fetch(url) resolves: the handler goes on to response.json().
FetchResolves ==
    /\ hpc = "awaitFetch"
    /\ hpc' = "awaitJson"
    /\ UNCHANGED <<query, apiKey, outbound, upstream, sent, prev>>
    /\ UNCHANGED <<viewVars, chartVars>>

\* A slip: the catch block only logs and sends nothing.
HandlerCatchOnlyLogs(failure) ==
    /\ upstream' = failure
    /\ hpc' = "done"
    /\ UNCHANGED <<query, apiKey, outbound, sent, prev>>

\* A slip: the catch block reports the URL it failed to fetch, key included.
HandlerCatchReportsUrl(failure) ==
    /\ upstream' = failure
    /\ sent' = Append(sent,
            MessageResponse(500, "Failed to fetch ...&appid=" \o apiKey.s))
    /\ hpc' = "done"
    /\ UNCHANGED <<query, apiKey, outbound, prev>>

\* The catch block.
HandlerCatch(failure) ==
    /\ upstream' = failure
    /\ sent' = Append(sent,
            MessageResponse(500, "Internal Server Error or Network Issue"))
    /\ hpc' = "done"
    /\ UNCHANGED <<query, apiKey, outbound, prev>>

\* A slip: a rejected fetch is tried again.
FetchRejectsAndRetries ==
    /\ hpc = "awaitFetch"
    /\ Len(outbound) < 3
    /\ outbound' = Append(outbound, outbound[1])
    /\ UNCHANGED <<query, apiKey, hpc, upstream, sent, prev>>
    /\ UNCHANGED <<viewVars, chartVars>>

\* await fetch(url) rejects.
FetchRejects ==
    /\ hpc = "awaitFetch"
    /\ HandlerCatch(NetworkFailure)
    /\ UNCHANGED <<viewVars, chartVars>>

\* await response.json() rejects.
JsonRejects ==
    /\ hpc = "awaitJson"
    /\ HandlerCatch(UnparseableBody)
    /\ UNCHANGED <<viewVars, chartVars>>

\* A slip: the status of a provider error fixed instead of relayed.
PayloadResponseFixedStatus(data) ==
    IF IsProviderError(data)
    THEN MessageResponse(500, ProviderErrorMessage(data))
    ELSE DataResponse(200, data)

\* The response the handler sends for a parsed payload.
PayloadResponse(data) ==
    IF IsProviderError(data)
    THEN MessageResponse(data.cod.n, ProviderErrorMessage(data))
    ELSE DataResponse(200, data)

\* A slip: the error branch without its return, so that the 200 follows it.
JsonResolvesFallsThrough ==
    /\ hpc = "awaitJson"
    /\ \E data \in Payloads :
          /\ upstream' = Parsed(data)
          /\ sent' = IF IsProviderError(data)
                     THEN sent \o <<PayloadResponse(data), DataResponse(200, data)>>
                     ELSE Append(sent, PayloadResponse(data))
    /\ hpc' = "done"
    /\ UNCHANGED <<query, apiKey, outbound, prev>>
    /\ UNCHANGED <<viewVars, chartVars>>

\* await response.json() resolves with the payload.
JsonResolves ==
    /\ hpc = "awaitJson"
    /\ \E data \in Payloads :
          /\ upstream' = Parsed(data)
          /\ sent' = Append(sent, PayloadResponse(data))
    /\ hpc' = "done"
    /\ UNCHANGED <<query, apiKey, outbound, prev>>
    /\ UNCHANGED <<viewVars, chartVars>>

\* await response.json() resolves with null: reading data.cod throws inside
\* the try block.
JsonResolvesNull ==
    /\ hpc = "awaitJson"
    /\ HandlerCatch(NullBody)
    /\ UNCHANGED <<viewVars, chartVars>>

ProxyInit ==
    /\ query = NoPrev.query
    /\ apiKey = Undefined
    /\ hpc = "idle"
    /\ outbound = <<>>
    /\ upstream = NoUpstream
    /\ sent = <<>>
    /\ prev = NoPrev

---------------------------------------------------------------------------
(* The dashboard view.  The page's texts are Korean; the strings below are *)
(* their English renderings, one distinct string for each distinct text.   *)

\* A state that holds null.
Null == [t |-> "null", s |-> "", n |-> 0]

\* What the view tests with `x && ...` and `x || y`: null and undefined are
\* falsy, a string is truthy unless empty, an object is truthy.
Shown(v) == v # Null /\ v # Undefined /\ v # Str("")

\* The bodies /api/weather answers with, as response.json() parses them: the
\* weather fields (name stands for them) and, for an error, message.
Bodies == [message : Messages, name : Names]
NoBody == [message |-> Undefined, name |-> ""]

\* The positions the browser can report, and the texts typed into the form.
Positions == {[latitude |-> 37, longitude |-> 127]}
CityTexts == {"", "Seoul", "Paris"}

\* The codes of GeolocationPositionError, and codes outside the three.
PERMISSION_DENIED    == 1
POSITION_UNAVAILABLE == 2
TIMEOUT              == 3
GeoCodes == {PERMISSION_DENIED, POSITION_UNAVAILABLE, TIMEOUT, 0, 4}

\* `/api/weather?lat=${latitude}&lon=${longitude}`
CoordsRequest(latitude, longitude) ==
    [path |-> "/api/weather",
     params |-> << <<"lat", ToString(latitude)>>, <<"lon", ToString(longitude)>> >>]

\* `/api/weather?city=${cityName}`
CityRequest(cityName) ==
    [path |-> "/api/weather", params |-> << <<"city", cityName>> >>]

\* The fallback of a non-ok response without a message, by kind of fetch.
FailedFallback(kind) ==
    IF kind = "coords"
    THEN "Failed to fetch the weather for the location."
    ELSE "Failed to fetch the weather for the city name."

\* The text set by the catch block of both fetch functions.
UnexpectedError == "An unexpected error occurred while fetching the weather."

\* data.message || (the fallback)
FailedMessage(kind, data) ==
    IF Shown(data.message) THEN data.message.s ELSE FailedFallback(kind)

\* A slip: the break after the first case left out, so that it falls through.
GeoErrorMessageFallsThrough(code) ==
    CASE code = PERMISSION_DENIED    -> "No location information is available."
      [] code = POSITION_UNAVAILABLE -> "No location information is available."
      [] code = TIMEOUT              -> "The location request timed out."
      [] OTHER -> "An unknown location error occurred. (code: "
                     \o ToString(code) \o ")"

\* The switch on err.code in the geolocation failure callback. Every case
\* assigns errorMessage, so the text it is declared with is never the result.
GeoErrorMessage(code) ==
    CASE code = PERMISSION_DENIED    -> "Please allow access to your location."
      [] code = POSITION_UNAVAILABLE -> "No location information is available."
      [] code = TIMEOUT              -> "The location request timed out."
      [] OTHER -> "An unknown location error occurred. (code: "
                     \o ToString(code) \o ")"

\* The text set when navigator.geolocation is missing.
GeoUnsupported == "This browser does not support geolocation."

\* A slip: a form disabled during a fetch only.
FormDisabledLoadingOnly == loading

\* A slip: a form disabled during location resolution only.
FormDisabledLocationOnly == locationLoading

\* disabled={loading || locationLoading}, on the input and on the button
FormDisabled == loading \/ locationLoading

\* What fetch() resolved with: response.ok and the body, which parses to an
\* object or does not parse.
Unparseable == [message |-> Undefined, name |-> "<!DOCTYPE html>"]
Responses   == [ok : BOOLEAN, body : Bodies \cup {Unparseable}]
NoResponse  == [ok |-> FALSE, body |-> NoBody]

\* A fetch cycle: one call of fetchWeatherByCoords or fetchWeatherByCity.
\*   stage    awaitFetch, awaitJson, or settled (the async function is over)
\*   url      the URL given to fetch(), while the cycle is in flight
\*   response what fetch() resolved with, while the cycle awaits json()
\*   how      how it ended: ok, failed (a non-ok response), threw (the catch)
\*   promise  the async function's own promise: pending, fulfilled, rejected
NewCycle(kind, url) ==
    [kind |-> kind, url |-> url, stage |-> "awaitFetch", response |-> NoResponse,
     how |-> "", promise |-> "pending"]

NoUrl == [path |-> "", params |-> <<>>]

InFlight(c) == c.stage # "settled"

\* A slip: the start of a fetch without setError(null).
StartCycleKeepsError(kind, url) ==
    /\ Len(cycles) < MaxCycles
    /\ loading' = TRUE
    /\ weather' = Null
    /\ cycles' = Append(cycles, NewCycle(kind, url))
    /\ UNCHANGED error

\* The start of both fetch functions, to the first await: setLoading(true),
\* setError(null), setWeather(null), fetch(url).
StartCycle(kind, url) ==
    /\ Len(cycles) < MaxCycles
    /\ loading' = TRUE
    /\ error' = Null
    /\ weather' = Null
    /\ cycles' = Append(cycles, NewCycle(kind, url))

\* fetchWeatherByCoords(latitude, longitude), to its first await.
fetchWeatherByCoords(latitude, longitude) ==
    StartCycle("coords", CoordsRequest(latitude, longitude))

\* useEffect, the browser having navigator.geolocation: getCurrentPosition.
MountWithGeolocation ==
    /\ geo = "start"
    /\ geo' = "requested"
    /\ UNCHANGED <<hasForm, city, weather, loading, error, locationLoading,
                   locationError, cycles>>
    /\ UNCHANGED <<geoError, proxyVars, chartVars>>

\* useEffect, the browser having no navigator.geolocation.
MountWithoutGeolocation ==
    /\ geo = "start"
    /\ geo' = "unsupported"
    /\ locationError' = Str(GeoUnsupported)
    /\ locationLoading' = FALSE
    /\ UNCHANGED <<hasForm, city, weather, loading, error, cycles>>
    /\ UNCHANGED <<geoError, proxyVars, chartVars>>

\* A slip: the flag cleared only in the failure callback.
GeoSuccessKeepsFlag ==
    /\ geo = "requested"
    /\ geo' = "resolved"
    /\ \E p \in Positions : fetchWeatherByCoords(p.latitude, p.longitude)
    /\ UNCHANGED <<hasForm, city, locationLoading, locationError>>
    /\ UNCHANGED <<geoError, proxyVars, chartVars>>

\* The success callback: fetchWeatherByCoords(latitude, longitude) up to its
\* first await, then setLocationLoading(false).
GeoSuccess ==
    /\ geo = "requested"
    /\ geo' = "resolved"
    /\ \E p \in Positions : fetchWeatherByCoords(p.latitude, p.longitude)
    /\ locationLoading' = FALSE
    /\ UNCHANGED <<hasForm, city, locationError>>
    /\ UNCHANGED <<geoError, proxyVars, chartVars>>

\* A slip: the failure callback sets the message and leaves the flag.
GeoFailureKeepsFlag ==
    /\ geo = "requested"
    /\ geo' = "failed"
    /\ \E code \in GeoCodes :
          /\ geoError' = Num(code)
          /\ locationError' = Str(GeoErrorMessage(code))
    /\ UNCHANGED <<hasForm, city, weather, loading, error, locationLoading, cycles>>
    /\ UNCHANGED <<proxyVars, chartVars>>

\* The failure callback.
GeoFailure ==
    /\ geo = "requested"
    /\ geo' = "failed"
    /\ \E code \in GeoCodes :
          /\ geoError' = Num(code)
          /\ locationError' = Str(GeoErrorMessage(code))
    /\ locationLoading' = FALSE
    /\ UNCHANGED <<hasForm, city, weather, loading, error, cycles>>
    /\ UNCHANGED <<proxyVars, chartVars>>

\* onChange of the city input, which takes no input while disabled.
TypeCity ==
    /\ hasForm
    /\ ~FormDisabled
    /\ \E text \in CityTexts : city' = text
    /\ UNCHANGED <<hasForm, weather, loading, error, locationLoading,
                   locationError, geo, cycles>>
    /\ UNCHANGED <<geoError, proxyVars, chartVars>>

\* fetchWeatherByCity(cityName), to its first await.
fetchWeatherByCity(cityName) ==
    IF cityName = ""
    THEN UNCHANGED <<weather, loading, error, cycles>>
    ELSE StartCycle("city", CityRequest(cityName))

\* A slip: a form that takes submissions whatever the flags.
handleSearchUnguarded ==
    /\ hasForm
    /\ fetchWeatherByCity(city)
    /\ UNCHANGED <<hasForm, city, locationLoading, locationError, geo>>
    /\ UNCHANGED <<geoError, proxyVars, chartVars>>

\* onSubmit of the form, whose button is disabled with the input:
\* handleSearch, fetchWeatherByCity(city).
handleSearch ==
    /\ hasForm
    /\ ~FormDisabled
    /\ fetchWeatherByCity(city)
    /\ UNCHANGED <<hasForm, city, locationLoading, locationError, geo>>
    /\ UNCHANGED <<geoError, proxyVars, chartVars>>

\* The end of a cycle: finally's setLoading(false), and the function returns.
Settle(i, how) ==
    /\ cycles' = [cycles EXCEPT ![i].stage = "settled", ![i].how = how,
                                ![i].url = NoUrl, ![i].response = NoResponse,
                                ![i].promise = "fulfilled"]
    /\ loading' = FALSE

\* A slip: the catch block logs and rethrows.
CycleCatchRethrows(i) ==
    /\ cycles' = [cycles EXCEPT ![i].stage = "settled", ![i].how = "threw",
                                ![i].url = NoUrl, ![i].response = NoResponse,
                                ![i].promise = "rejected"]
    /\ loading' = FALSE
    /\ UNCHANGED <<weather, error, city>>

\* The catch block and finally of both fetch functions.
CycleCatch(i) ==
    /\ error' = Str(UnexpectedError)
    /\ Settle(i, "threw")
    /\ UNCHANGED <<weather, city>>

\* await fetch(url) resolves with a response.
ViewFetchResolves ==
    /\ \E i \in DOMAIN cycles :
          /\ cycles[i].stage = "awaitFetch"
          /\ \E r \in Responses :
                cycles' = [cycles EXCEPT ![i].stage = "awaitJson",
                                         ![i].response = r]
    /\ UNCHANGED <<hasForm, city, weather, loading, error, locationLoading,
                   locationError, geo>>
    /\ UNCHANGED <<geoError, proxyVars, chartVars>>

\* await fetch(url) rejects.
ViewFetchRejects ==
    /\ \E i \in DOMAIN cycles :
          /\ cycles[i].stage = "awaitFetch"
          /\ CycleCatch(i)
    /\ UNCHANGED <<hasForm, locationLoading, locationError, geo>>
    /\ UNCHANGED <<geoError, proxyVars, chartVars>>

\* await response.json() rejects: the body does not parse.
ViewJsonRejects ==
    /\ \E i \in DOMAIN cycles :
          /\ cycles[i].stage = "awaitJson"
          /\ cycles[i].response.body = Unparseable
          /\ CycleCatch(i)
    /\ UNCHANGED <<hasForm, locationLoading, locationError, geo>>
    /\ UNCHANGED <<geoError, proxyVars, chartVars>>

\* A slip: loading cleared at the end of the success branch, not in finally.
CycleTryNoFinally(i, data) ==
    IF cycles[i].response.ok
    THEN /\ weather' = data
         /\ city' = (IF cycles[i].kind = "coords" THEN "" ELSE city)
         /\ Settle(i, "ok")
         /\ UNCHANGED error
    ELSE /\ error' = Str(FailedMessage(cycles[i].kind, data))
         /\ cycles' = [cycles EXCEPT ![i].stage = "settled", ![i].how = "failed",
                                     ![i].url = NoUrl, ![i].response = NoResponse,
                                     ![i].promise = "fulfilled"]
         /\ UNCHANGED <<weather, city, loading>>

\* The rest of the try block once the body is parsed, and finally:
\* setWeather(data) (and, after a fetch by coordinates on the page with the
\* form, setCity('')) or setError(data.message || fallback); setLoading(false).
CycleTry(i, data) ==
    IF cycles[i].response.ok
    THEN /\ weather' = data
         /\ city' = (IF cycles[i].kind = "coords" THEN "" ELSE city)
         /\ Settle(i, "ok")
         /\ UNCHANGED error
    ELSE /\ error' = Str(FailedMessage(cycles[i].kind, data))
         /\ Settle(i, "failed")
         /\ UNCHANGED <<weather, city>>

\* await response.json() resolves with the parsed body.
ViewJsonResolves ==
    /\ \E i \in DOMAIN cycles :
          /\ cycles[i].stage = "awaitJson"
          /\ cycles[i].response.body # Unparseable
          /\ CycleTry(i, cycles[i].response.body)
    /\ UNCHANGED <<hasForm, locationLoading, locationError, geo>>
    /\ UNCHANGED <<geoError, proxyVars, chartVars>>

\* The state after HomePage's useState calls, before its effect runs.
ViewInit ==
    /\ hasForm \in BOOLEAN
    /\ city = ""
    /\ weather = Null
    /\ loading = FALSE
    /\ error = Null
    /\ locationLoading = TRUE
    /\ locationError = Null
    /\ geo = "start"
    /\ geoError = Null
    /\ cycles = <<>>

\* The view, not rendered.
ViewIdle ==
    /\ hasForm = TRUE
    /\ city = ""
    /\ weather = Null
    /\ loading = FALSE
    /\ error = Null
    /\ locationLoading = TRUE
    /\ locationError = Null
    /\ geo = "start"
    /\ geoError = Null
    /\ cycles = <<>>

---------------------------------------------------------------------------
(* The ring chart (the page without the form).  A temperature is a number  *)
(* of steps of 1/TempSteps degree; the arithmetic is exact.                *)

minTemp == -20
maxTemp == 40
range   == maxTemp - minTemp

Temperatures == ((minTemp - TempBelow) * TempSteps) .. ((maxTemp + TempAbove) * TempSteps)

Max(a, b) == IF a >= b THEN a ELSE b
Min(a, b) == IF a <= b THEN a ELSE b

\* Math.round of the fraction num / den (den > 0): the nearest integer, a
\* half going up.
Round(num, den) == (2 * num + den) \div (2 * den)

\* A slip: the temperature not clamped to the range.
calculateTemperaturePercentageUnclamped(t) ==
    IF t = Undefined
    THEN Null
    ELSE Num(Round((t.n - minTemp * TempSteps) * 100, range * TempSteps))

\* ((clampedTemp - minTemp) / range) * 100 is computed in IEEE doubles. Of the
\* values whose exact percentage lies halfway between two integers (the odd
\* multiples of 1.5 degrees above minTemp) one gets a double below the half:
\* (34.5 / 60) * 100 is 57.49999999999999, which Math.round takes down.
DoubleBelowHalf(clampedTemp) ==
    2 * (clampedTemp - minTemp * TempSteps) = 69 * TempSteps

\* calculateTemperaturePercentage(temp)
calculateTemperaturePercentage(t) ==
    IF t = Undefined
    THEN Null
    ELSE LET clampedTemp == Max(minTemp * TempSteps, Min(maxTemp * TempSteps, t.n))
             num == (clampedTemp - minTemp * TempSteps) * 100
             den == range * TempSteps
         IN  Num(IF DoubleBelowHalf(clampedTemp) THEN num \div den ELSE Round(num, den))

\* chartData: null, or the two segments of the ring.
ChartDataFor(percentage) ==
    IF percentage = Null THEN Null ELSE <<percentage.n, 100 - percentage.n>>

\* A render of the page with the weather it holds: weather?.main.temp is
\* undefined (no weather) or the temperature, and the chart is derived from it.
RenderChart ==
    /\ \E t \in {Undefined} \cup {Num(n) : n \in Temperatures} :
          /\ temp' = t
          /\ temperaturePercentage' = calculateTemperaturePercentage(t)
          /\ chartData' = ChartDataFor(calculateTemperaturePercentage(t))
    /\ UNCHANGED <<proxyVars, viewVars>>

ChartInit ==
    /\ temp = Undefined
    /\ temperaturePercentage = Null
    /\ chartData = Null

---------------------------------------------------------------------------

Init == ProxyInit /\ ViewIdle /\ ChartInit

Next ==
    \/ NewRequest
    \/ RepeatRequest
    \/ FetchResolves
    \/ FetchRejects
    \/ JsonResolves
    \/ JsonResolvesNull
    \/ JsonRejects

Spec == Init /\ [][Next]_vars

ViewNext ==
    \/ MountWithGeolocation
    \/ MountWithoutGeolocation
    \/ GeoSuccess
    \/ GeoFailure
    \/ TypeCity
    \/ handleSearch
    \/ ViewFetchResolves
    \/ ViewFetchRejects
    \/ ViewJsonResolves
    \/ ViewJsonRejects

ViewSpecInit == ProxyInit /\ ViewInit /\ ChartInit

ViewSpec == ViewSpecInit /\ [][ViewNext]_vars

\* The host settles every promise it hands out: a pending fetch() or json()
\* resolves or rejects, and the continuation then runs.
PromiseSettles ==
    \/ ViewFetchResolves
    \/ ViewFetchRejects
    \/ ViewJsonResolves
    \/ ViewJsonRejects

FairViewSpec == ViewSpec /\ WF_vars(PromiseSettles)

ChartSpecInit == ProxyInit /\ ViewInit /\ ~hasForm /\ ChartInit

ChartNext == RenderChart

ChartSpec == ChartSpecInit /\ [][ChartNext]_vars


---------------------------------------------------------------------------
(* The claims about the proxy endpoint, checked under Spec.                *)

\* The claims' own words for the request: a non-empty single string.
NonEmptyString(v) == v.t = "string" /\ v.s # ""
CompleteCoords    == NonEmptyString(query.lat) /\ NonEmptyString(query.lon)
KeyConfigured     == apiKey.t = "string" /\ apiKey.s # ""
Invoked           == hpc # "idle"

BadRequest ==
    MessageResponse(400, "City or latitude/longitude query parameters are required")
NotConfigured    == MessageResponse(500, "API Key not configured")
TransportFailure == MessageResponse(500, "Internal Server Error or Network Issue")

\* The keys of a URL's query string.
UrlKeys(u) == {u.params[i][1] : i \in DOMAIN u.params}
\* The value the URL gives a key.
UrlHas(u, k, v) == \E i \in DOMAIN u.params : u.params[i] = <<k, v>>

\* C1: with the credential configured, a request that has neither a complete
\* coordinate pair (lat and lon both non-empty strings) nor a non-empty string
\* city is answered 400 "City or latitude/longitude query parameters are
\* required", once, and no upstream call is issued for it.
C1_MissingParams400 ==
    (Invoked /\ KeyConfigured /\ ~CompleteCoords /\ ~NonEmptyString(query.city))
        => /\ hpc = "done"
           /\ sent = <<BadRequest>>
           /\ outbound = <<>>

\* C1's case: a configured key, a repeated lat parameter (an array), an empty
\* city, and the handler has answered.
C1_Witness ==
    /\ hpc = "done" /\ KeyConfigured
    /\ query.lat = StrArray /\ query.lon = Str("127.0") /\ query.city = Str("")
    /\ sent = <<BadRequest>>

\* C2: when lat and lon are both non-empty single strings the handler fetches
\* one URL, keyed by lat= and lon= with the request's values and never by q=,
\* also when a city is supplied in the same request.
C2_CoordsUrlNeverCity ==
    (Invoked /\ KeyConfigured /\ CompleteCoords)
        => /\ Len(outbound) = 1
           /\ UrlHas(outbound[1], "lat", query.lat.s)
           /\ UrlHas(outbound[1], "lon", query.lon.s)
           /\ "q" \notin UrlKeys(outbound[1])

\* C2's case: coordinates and a city in the same request, the fetch issued.
C2_Witness ==
    /\ hpc = "awaitFetch" /\ KeyConfigured /\ CompleteCoords
    /\ query.city = Str("Seoul")
    /\ outbound = <<CoordsUrl(query, apiKey)>>

\* C3 as stated: whenever the parsed body carries a cod (the field is there)
\* other than 200, the response's status is that cod and its message is the
\* provider's non-empty message or else "OpenWeatherMap API Error: <cod>".
C3_Original_PresentCodRelayed ==
    (hpc = "done" /\ upstream.kind = "payload"
        /\ upstream.data.cod.t = "number" /\ upstream.data.cod.n # 200)
        => /\ Len(sent) = 1
           /\ sent[1].status = upstream.data.cod.n
           /\ sent[1].kind = "message"
           /\ sent[1].message =
                 IF NonEmptyString(upstream.data.message)
                 THEN upstream.data.message.s
                 ELSE "OpenWeatherMap API Error: " \o ToString(upstream.data.cod.n)

\* C3, amended: whenever the parsed body carries a cod that is neither 0 nor
\* 200, the response's status is that cod and its message is the provider's
\* non-empty message or else "OpenWeatherMap API Error: <cod>".
C3_NonZeroCodRelayed ==
    (hpc = "done" /\ upstream.kind = "payload"
        /\ upstream.data.cod.t = "number"
        /\ upstream.data.cod.n # 0 /\ upstream.data.cod.n # 200)
        => /\ Len(sent) = 1
           /\ sent[1].status = upstream.data.cod.n
           /\ sent[1].kind = "message"
           /\ sent[1].message =
                 IF NonEmptyString(upstream.data.message)
                 THEN upstream.data.message.s
                 ELSE "OpenWeatherMap API Error: " \o ToString(upstream.data.cod.n)

\* C3's case: the provider answered cod 404 with an empty message, and the
\* handler relayed 404 with the fallback text.
C3_Witness ==
    /\ hpc = "done" /\ upstream.kind = "payload"
    /\ upstream.data.cod = Num(404) /\ upstream.data.message = Str("")
    /\ sent = <<MessageResponse(404, "OpenWeatherMap API Error: 404")>>

\* C4: without the credential every request, whatever its parameters, is
\* answered 500 "API Key not configured", once and with no upstream call (so
\* before the 400 of a request without parameters); no response of a run that
\* did reach the provider, failed or not, carries that message.
C4_NoKey500 ==
    /\ (Invoked /\ ~KeyConfigured)
          => /\ hpc = "done"
             /\ sent = <<NotConfigured>>
             /\ outbound = <<>>
    /\ (Invoked /\ outbound # <<>>)
          => \A i \in DOMAIN sent : sent[i].message # NotConfigured.message

\* C4's case: no key and no parameters at all, answered 500 and not 400.
C4_Witness ==
    /\ hpc = "done" /\ apiKey = Undefined
    /\ query = [city |-> Undefined, lat |-> Undefined, lon |-> Undefined]
    /\ sent = <<NotConfigured>>

\* C5: when fetch() rejects or the body does not parse, the handler answers
\* 500 "Internal Server Error or Network Issue", once; the response to a
\* provider-reported error (also one of cod 500) is never that response,
\* whether in this run or in the run before it of the same request. The
\* provider's messages are taken to be its own texts (Messages), none of them
\* the handler's.
C5_TransportFailure500 ==
    /\ (hpc = "done" /\ upstream.kind \in {"network", "unparseable"})
          => sent = <<TransportFailure>>
    /\ (hpc = "done" /\ upstream.kind = "payload" /\ IsProviderError(upstream.data))
          => /\ sent # <<TransportFailure>>
             /\ (prev.ran /\ prev.upstream.kind \in {"network", "unparseable"})
                   => prev.sent # sent

\* C5's case: a run that failed in transport, then the same request answered
\* by the provider with an error of status 500 too.
C5_Witness ==
    /\ hpc = "done" /\ prev.ran
    /\ prev.upstream = UnparseableBody /\ prev.sent = <<TransportFailure>>
    /\ upstream.kind = "payload" /\ upstream.data.cod = Num(500)
    /\ upstream.data.message = Undefined

\* C6 as stated: each finished invocation has made exactly one outbound call.
C6_Original_ExactlyOneCall ==
    hpc = "done" => Len(outbound) = 1

\* C6, amended: an invocation makes one outbound call when the credential is
\* configured and the request names coordinates or a city, and none otherwise;
\* never more than one, whatever the provider does (no retry); and a repeated
\* request is fetched again and answered from this run's upstream result, not
\* from the earlier run's (no caching).
C6_AtMostOneCallNoRetryNoCache ==
    /\ Len(outbound) <= 1
    /\ Invoked =>
          (Len(outbound) = 1 <=>
              (KeyConfigured /\ (CompleteCoords \/ NonEmptyString(query.city))))
    /\ (hpc = "done" /\ prev.ran /\ Len(outbound) = 1)
          => /\ upstream.kind # "none"
             /\ upstream.kind = "payload" =>
                   \/ sent = <<DataResponse(200, upstream.data)>>
                   \/ /\ sent[1].kind = "message"
                      /\ sent[1].status = upstream.data.cod.n

\* C6's case: the same request served twice with the same key, the first run
\* relayed a payload, the second met a network failure: each made its one call
\* and the second did not answer with the first's payload.
C6_Witness ==
    /\ hpc = "done" /\ prev.ran /\ prev.apiKey = apiKey
    /\ prev.upstream.kind = "payload" /\ prev.sent[1].status = 200
    /\ upstream = NetworkFailure
    /\ Len(prev.outbound) = 1 /\ Len(outbound) = 1
    /\ sent = <<TransportFailure>>

\* Whether a response carries the text `k` anywhere in its body.
Carries(r, k) ==
    \/ r.message = k
    \/ r.data.name = k
    \/ r.data.message = Str(k)

\* C7: two runs of the same request that differ only in the (non-empty) key
\* and meet the same upstream result send the same status and body; no
\* response carries the key; the key goes into the fetched URL, as appid.
C7_KeyNeverForwarded ==
    /\ (hpc = "done" /\ prev.ran /\ prev.query = query
          /\ NonEmptyString(prev.apiKey) /\ KeyConfigured
          /\ prev.upstream = upstream)
          => prev.sent = sent
    /\ KeyConfigured =>
          /\ \A i \in DOMAIN sent : ~Carries(sent[i], apiKey.s)
          /\ \A i \in DOMAIN outbound : UrlHas(outbound[i], "appid", apiKey.s)

\* C7's case: the same request run under key-A and then key-B, both answered
\* from the same provider payload.
C7_Witness ==
    /\ hpc = "done" /\ prev.ran
    /\ prev.apiKey = Str("key-A") /\ apiKey = Str("key-B")
    /\ upstream.kind = "payload" /\ prev.upstream = upstream
    /\ UrlHas(outbound[1], "appid", "key-B")
    /\ UrlHas(prev.outbound[1], "appid", "key-A")

---------------------------------------------------------------------------
(* The claims about the dashboard view, checked under ViewSpec, and under  *)
(* FairViewSpec where a claim says that something eventually happens.      *)

\* A step starts a cycle: the sequence of cycles grows by one.
StartsCycle == Len(cycles') = Len(cycles) + 1

\* A step ends cycle i.
EndsCycle(i) == InFlight(cycles[i]) /\ ~InFlight(cycles'[i])

\* C8: the step that starts a fetch cycle, by coordinates or by a non-empty
\* city name, sets loading and clears error and result, and only with that
\* issues the request; the step that ends a cycle, by an ok response, a non-ok
\* response or the catch block, leaves loading false, so loading is false
\* whenever no cycle is in flight; and a loading view eventually stops loading.
C8_LoadingBracketsEveryCycle ==
    /\ [][StartsCycle =>
            /\ loading' /\ error' = Null /\ weather' = Null
            /\ cycles'[Len(cycles')].stage = "awaitFetch"
            /\ cycles'[Len(cycles')].url # NoUrl]_vars
    /\ [][\A i \in DOMAIN cycles : EndsCycle(i) => ~loading']_vars
    /\ []((\A i \in DOMAIN cycles : ~InFlight(cycles[i])) => ~loading)
    /\ [](loading => <>~loading)

\* C8's case: three cycles have run, one ended by an ok response, one by a
\* non-ok response and one in the catch block, and loading is false.
C8_Witness ==
    /\ Len(cycles) = 3 /\ ~loading
    /\ {cycles[i].how : i \in DOMAIN cycles} = {"ok", "failed", "threw"}
    /\ \E i \in DOMAIN cycles : cycles[i].kind = "city"

\* C9: the step that ends a cycle with an ok response sets the result to the
\* parsed body and leaves error null; with a non-ok response it sets error to
\* the body's non-empty message or else to the fixed fallback of that fetch;
\* when fetch() or json() rejects it sets error to the fixed text of the catch
\* block; error is then never empty, the result is null in both failure cases,
\* and the cycle's own promise is fulfilled, never rejected.
C9_FailuresBecomeMessages ==
    [][\A i \in DOMAIN cycles : EndsCycle(i) =>
          LET c == cycles[i]
              parsed == c.stage = "awaitJson" /\ c.response.body # Unparseable
          IN  /\ cycles'[i].promise = "fulfilled"
              /\ (parsed /\ c.response.ok) =>
                    /\ weather' = c.response.body
                    /\ error' = Null
              /\ (parsed /\ ~c.response.ok) =>
                    /\ error' = Str(IF NonEmptyString(c.response.body.message)
                                    THEN c.response.body.message.s
                                    ELSE FailedFallback(c.kind))
                    /\ error'.s # ""
                    /\ weather' = Null
              /\ ~parsed =>
                    /\ error' = Str(UnexpectedError)
                    /\ error'.s # ""
                    /\ weather' = Null]_vars

\* C9's case: a cycle by city ended by a non-ok response without a message,
\* the fallback shown, after a cycle that ended in the catch block.
C9_Witness ==
    /\ \E i \in DOMAIN cycles : cycles[i].how = "threw"
    /\ \E i \in DOMAIN cycles : cycles[i].kind = "city" /\ cycles[i].how = "failed"
    /\ error = Str(FailedFallback("city"))
    /\ weather = Null /\ ~loading

\* C10: locationLoading is true from the page load until the resolution ends
\* and false ever after: after the success callback, whatever becomes of the
\* fetch by coordinates; after the failure callback, with the error message
\* set; and at once, with the capability-absent message, when the browser has
\* no geolocation. The resolution ends once, and the flag is never set again.
C10_LocationLoadingClearedOnce ==
    /\ [](/\ geo \in {"start", "requested"} => locationLoading
          /\ geo = "resolved" => ~locationLoading
          /\ geo = "failed" => (~locationLoading /\ Shown(locationError))
          /\ geo = "unsupported" =>
                (~locationLoading /\ locationError = Str(GeoUnsupported)))
    /\ [][~locationLoading => ~locationLoading']_vars
    /\ [][geo \notin {"start", "requested"} => geo' = geo]_vars

\* C10's case: the position was obtained, the fetch by coordinates ended in
\* the catch block, and the flag is clear.
C10_Witness ==
    /\ geo = "resolved" /\ ~locationLoading
    /\ Len(cycles) >= 1 /\ cycles[1].kind = "coords" /\ cycles[1].how = "threw"

\* C11: the message of a geolocation failure is a function of err.code, defined
\* for every code: after the failure callback the location error is the text
\* of the code received and is not empty; the texts of PERMISSION_DENIED,
\* POSITION_UNAVAILABLE and TIMEOUT differ from one another, and the text of
\* any other code names that code, so it is the text of no other code.
C11_GeoMessageMapping ==
    /\ geo = "failed" =>
          /\ geoError.t = "number"
          /\ locationError.t = "string" /\ locationError.s # ""
          /\ locationError.s = GeoErrorMessage(geoError.n)
          /\ \A other \in GeoCodes \ {geoError.n} :
                locationError.s # GeoErrorMessage(other)
    /\ \A c1, c2 \in {PERMISSION_DENIED, POSITION_UNAVAILABLE, TIMEOUT} :
          c1 # c2 => GeoErrorMessage(c1) # GeoErrorMessage(c2)

\* C11's case: the failure callback ran with a code outside the three.
C11_Witness ==
    /\ geo = "failed" /\ geoError = Num(4)
    /\ locationError = Str("An unknown location error occurred. (code: 4)")

\* C12: the failure callback sets the location error to the text of its code
\* (for PERMISSION_DENIED, the request to allow access), starts no fetch cycle
\* and leaves loading, error and result as they were; loading || locationLoading
\* is then false, so on the page with the form, until a fetch is started, a
\* city can be typed and submitted.
C12_FailureFallsBackToManualEntry ==
    /\ [][(geo = "requested" /\ geo' = "failed") =>
            /\ locationError' = Str(GeoErrorMessage(geoError'.n))
            /\ geoError' = Num(PERMISSION_DENIED) =>
                  locationError' = Str("Please allow access to your location.")
            /\ UNCHANGED <<loading, error, weather, cycles>>
            /\ ~(loading' \/ locationLoading')]_vars
    /\ []((hasForm /\ geo = "failed" /\ cycles = <<>>) =>
            /\ ~(loading \/ locationLoading)
            /\ ENABLED TypeCity
            /\ ENABLED handleSearch)

\* C12's case: permission was denied, and a city was then submitted.
C12_Witness ==
    /\ hasForm /\ geo = "failed" /\ geoError = Num(PERMISSION_DENIED)
    /\ locationError = Str("Please allow access to your location.")
    /\ Len(cycles) = 1 /\ cycles[1].kind = "city" /\ InFlight(cycles[1])

\* C13, as the specification states it: on the page with the form, in every
\* state, location resolution pending included, a city can be typed and a
\* typed city submitted, and the submission starts a city fetch.
C13_Original_ManualEntryAlways ==
    (hasForm /\ Len(cycles) < MaxCycles) =>
        /\ ENABLED TypeCity
        /\ city # "" => ENABLED (handleSearch /\ StartsCycle)

\* C13, what the code does: a city can be typed and submitted exactly while
\* neither loading nor locationLoading is true (the input and the button are
\* disabled otherwise), and every city fetch starts from such a state, for the
\* city typed.
C13_ManualEntryOnlyWhenEnabled ==
    /\ []((hasForm /\ Len(cycles) < MaxCycles) =>
            /\ ENABLED TypeCity <=> ~(loading \/ locationLoading)
            /\ city # "" =>
                  (ENABLED (handleSearch /\ StartsCycle) <=> ~(loading \/ locationLoading)))
    /\ [][(StartsCycle /\ cycles'[Len(cycles')].kind = "city") =>
            /\ hasForm /\ city # ""
            /\ ~(loading \/ locationLoading)
            /\ cycles'[Len(cycles')].url = CityRequest(city)]_vars

\* C13's case: the location resolved, its fetch ended, and a city was submitted.
C13_Witness ==
    /\ hasForm /\ geo = "resolved"
    /\ Len(cycles) = 2 /\ ~InFlight(cycles[1])
    /\ cycles[2].kind = "city" /\ InFlight(cycles[2])

\* An earlier cycle still awaits its response after a later cycle has ended
\* and written its result or error: the earlier one's end overwrites it.
Overtaken ==
    \E i, j \in DOMAIN cycles :
        i < j /\ InFlight(cycles[i]) /\ ~InFlight(cycles[j])

\* Overtaken is reached from this state in at most 1, 2, ... steps of the view.
Overtaken1 == Overtaken  \/ ENABLED (ViewNext /\ Overtaken')
Overtaken2 == Overtaken1 \/ ENABLED (ViewNext /\ Overtaken1')
Overtaken3 == Overtaken2 \/ ENABLED (ViewNext /\ Overtaken2')
Overtaken4 == Overtaken3 \/ ENABLED (ViewNext /\ Overtaken3')
Overtaken5 == Overtaken4 \/ ENABLED (ViewNext /\ Overtaken4')
Overtaken6 == Overtaken5 \/ ENABLED (ViewNext /\ Overtaken5')
Overtaken7 == Overtaken6 \/ ENABLED (ViewNext /\ Overtaken6')
Overtaken8 == Overtaken7 \/ ENABLED (ViewNext /\ Overtaken7')

C15_PercentageLinearClampedRounded ==
    temp # Undefined =>
        LET t == temp.n
            p == temperaturePercentage.n
            c == IF t < -20 * TempSteps THEN -20 * TempSteps
                 ELSE IF t > 40 * TempSteps THEN 40 * TempSteps ELSE t
            d == p * 60 * TempSteps - 100 * (c + 20 * TempSteps)
        IN  /\ temperaturePercentage.t = "number"
            /\ p \in 0..100
            /\ t = -20 * TempSteps => p = 0
            /\ t = 40 * TempSteps => p = 100
            /\ t = 10 * TempSteps => p = 50
            /\ t = -50 * TempSteps => p = 0
            /\ t = 100 * TempSteps => p = 100
            /\ t <= -20 * TempSteps => p = 0
            /\ t >= 40 * TempSteps => p = 100
            /\ 2 * d <= 60 * TempSteps /\ 2 * d >= -(60 * TempSteps)
            /\ \A u \in Temperatures :
                  u <= t => calculateTemperaturePercentage(Num(u)).n <= p
            /\ chartData = <<p, 100 - p>>
            /\ chartData[1] \in 0..100 /\ chartData[2] \in 0..100
            /\ chartData[1] + chartData[2] = 100

\* C15's case: a temperature below the range, rendered.
C15_Witness ==
    /\ temp = Num(-50 * TempSteps)
    /\ temperaturePercentage = Num(0)
    /\ chartData = <<0, 100>>

\* A response of status 200 is among those sent for this invocation.
Sent200 == \E i \in DOMAIN sent : sent[i].status = 200

\* The parsed body's cod is missing, falsy (0) or 200.
CodAbsentFalsyOr200 ==
    \/ upstream.data.cod.t = "undefined"
    \/ upstream.data.cod = Num(0)
    \/ upstream.data.cod = Num(200)

\* C16, as the specification states it: a finished invocation has sent a 200
\* exactly when fetch and json() both resolved and the body carries a cod
\* that is missing, falsy or 200 (the body null included, which carries none).
C16_Original_200IffNoErrorCod ==
    hpc = "done" =>
        (Sent200 <=> (upstream.kind \in {"payload", "null"} /\ CodAbsentFalsyOr200))

\* C16, amended: a finished invocation has sent a 200 exactly when fetch and
\* json() both resolved, the body is not null, and its cod is missing, falsy
\* or 200; the response is then the body itself, and the only one. A null
\* body is answered 500 like a transport failure; an unfinished invocation
\* has sent no 200.
C16_200IffNonNullBodyWithoutErrorCod ==
    /\ hpc = "done" =>
          /\ Sent200 <=> (upstream.kind = "payload" /\ CodAbsentFalsyOr200)
          /\ Sent200 => sent = <<DataResponse(200, upstream.data)>>
          /\ upstream.kind = "null" => sent = <<TransportFailure>>
    /\ hpc # "done" => ~Sent200

\* C16's case: a body without cod, relayed with status 200.
C16_Witness ==
    /\ hpc = "done" /\ upstream.kind = "payload"
    /\ upstream.data.cod = Undefined
    /\ sent = <<DataResponse(200, upstream.data)>>

\* C17: an invocation that has returned has sent exactly one response, being
\* the 500 of the missing credential, the 400 of the missing parameters, the
\* provider's error, the 500 of the catch block or the 200; one that awaits
\* the provider has sent none yet.
C17_ExactlyOneResponse ==
    /\ hpc = "done" =>
          /\ Len(sent) = 1
          /\ \/ ~KeyConfigured /\ sent[1] = NotConfigured
             \/ KeyConfigured /\ outbound = <<>> /\ sent[1] = BadRequest
             \/ upstream.kind = "payload" /\ sent[1].kind = "message"
                    /\ sent[1].status = upstream.data.cod.n
             \/ upstream.kind \in {"network", "unparseable", "null"}
                    /\ sent[1] = TransportFailure
             \/ upstream.kind = "payload" /\ sent[1] = DataResponse(200, upstream.data)
    /\ hpc \in {"awaitFetch", "awaitJson"} => sent = <<>>
    /\ prev.ran => Len(prev.sent) = 1

\* C17's case: a request answered with the provider's error, then answered
\* again, with the 200.
C17_Witness ==
    /\ hpc = "done" /\ prev.ran
    /\ Len(prev.sent) = 1 /\ prev.sent[1].status = 404
    /\ Len(sent) = 1 /\ sent[1].status = 200

\* C18: the result and the error are never both non-null, and both are null
\* whenever loading is true, so of the loading line, the error line and the
\* result panel, each rendered from one of the three, at most one shows.
C18_ResultErrorLoadingExclusive ==
    /\ ~(weather # Null /\ error # Null)
    /\ loading => (weather = Null /\ error = Null)
    /\ Cardinality({x \in {"loading", "error", "weather"} :
            \/ x = "loading" /\ loading
            \/ x = "error" /\ Shown(error)
            \/ x = "weather" /\ Shown(weather)}) <= 1

\* C18's case: a fetch failed and left its message, the next one cleared it
\* and set the result.
C18_Witness ==
    /\ Len(cycles) = 2 /\ cycles[1].how = "failed" /\ cycles[2].how = "ok"
    /\ weather # Null /\ error = Null /\ ~loading

\* The cycles in flight.
CyclesInFlight == {i \in DOMAIN cycles : InFlight(cycles[i])}

\* C19: loading is true exactly while a fetch cycle is in flight, and at most
\* one is: a cycle starts only with none in flight, so the step that ends a
\* cycle and clears loading leaves none awaiting; of the geolocation callbacks
\* one fires, once, so at most one cycle is a fetch by coordinates.
C19_LoadingIffCycleInFlight ==
    /\ [](loading <=> CyclesInFlight # {})
    /\ [](Cardinality(CyclesInFlight) <= 1)
    /\ [][\A i \in DOMAIN cycles :
            EndsCycle(i) => (~loading' /\ CyclesInFlight \ {i} = {})]_vars
    /\ [][geo' # geo =>
            \/ geo = "start" /\ geo' \in {"requested", "unsupported"}
            \/ geo = "requested" /\ geo' \in {"resolved", "failed"}]_vars
    /\ [](Cardinality({i \in DOMAIN cycles : cycles[i].kind = "coords"}) <= 1)

\* C19's case: the third cycle is in flight, the two before it have ended.
C19_Witness ==
    /\ loading /\ Len(cycles) = 3
    /\ CyclesInFlight = {3}
    /\ cycles[1].kind = "coords" /\ cycles[3].kind = "city"

===========================================================================
